---------------------------- MODULE Spec2Model ----------------------------
(***************************************************************************)
(* The road-network prototype compiler of                                  *)
(* src/game/transport/transport_planning/mod.rs: calculate_prototypes      *)
(* turns the road gestures of a plan into intersection, lane, transfer     *)
(* lane and paved area prototypes.                                         *)
(*                                                                         *)
(* Lengths are fixed-point: one model unit is 0.01 of the program's N      *)
(* (f32), so LANE_WIDTH = 6.0 is 600 and the tolerance 0.05 is 5.  Points  *)
(* and vectors are pairs <<x, y>>.  Gestures are straight and parallel to  *)
(* an axis, so a path is one line segment [start, end], and a shape is a   *)
(* finite set of axis-parallel rectangles <<x1, y1, x2, y2>> whose union   *)
(* is the region it covers.                                                *)
(***************************************************************************)
EXTENDS Integers, Sequences, FiniteSets, TLC

VARIABLES
    plan,                            \* the Plan handed to calculate_prototypes
    clip_failing,                    \* the clipper inputs on which clipper::clip returns Err
    log,                             \* lines printed by println!, counted per message
    pc,                              \* the stage calculate_prototypes is at
    gesture_intent_smooth_paths,     \* Vec<(GestureID, RoadIntent, CPath)>
    outline_segments,                \* per road gesture, the segments of its pavement outline
    gesture_shapes_for_intersection, \* Vec<CShape>, the pavement shapes
    pair_cursor,                     \* position of the cartesian product (i_a, i_b)
    intersection_shapes,             \* Vec<CShape>, the pool the union loop works on
    i,                               \* cursor of the union loop
    intersection_prototypes,         \* Vec<Prototype>, all of variant Intersection
    raw_lane_paths,                  \* Vec<(GestureSideID, CPath)>
    lane_cursor,                     \* raw lanes already cut
    intersected_lane_paths,          \* Vec<CPath>, the in-segment lane pieces
    lane_sides,                      \* the GestureSideID each piece was cut under
    transfer_lane_paths,             \* Vec<CPath>
    output,                          \* the Vec<Prototype> returned
    call,                            \* 1 during the first call, 2 during a second one
    first_call,                      \* plan and output of the first call
    union_pass,                      \* 1, 2: which run of the union loop (SpecUnion)
    first_pass                       \* the pool SpecUnion started from, and the
                                     \* shapes and error count at the end of its first run

vars == <<plan, clip_failing, log, pc, gesture_intent_smooth_paths, outline_segments,
          gesture_shapes_for_intersection, pair_cursor, intersection_shapes, i,
          intersection_prototypes, raw_lane_paths, lane_cursor, intersected_lane_paths,
          lane_sides, transfer_lane_paths, output, call, first_call, union_pass,
          first_pass>>

-----------------------------------------------------------------------------
(* Bounds of the model *)

\* the longest plan explored (road gestures of GestureCatalog)
MaxGestures == 2
\* the longest pool of shapes SpecUnion starts from
MaxPool == 3
\* SpecUnion draws its shapes from the intervals of 0..MaxCoord
MaxCoord == 2

-----------------------------------------------------------------------------
(* Constants of the program, in model units of 0.01 *)

LANE_WIDTH == 600
LANE_DISTANCE == (8 * LANE_WIDTH) \div 10
CENTER_LANE_DISTANCE == (LANE_DISTANCE * 11) \div 10
END_INTERSECTION_DEPTH == 1500
TRANSFER_LANE_DISTANCE_TOLERANCE == 30
\* the tolerances of LanePrototype, TransferLanePrototype and
\* IntersectionPrototype::morphable_from
LANE_MORPH_TOLERANCE == 5
INTERSECTION_MORPH_TOLERANCE == 10

-----------------------------------------------------------------------------
(* Arithmetic and sequences *)

Abs(n) == IF n < 0 THEN -n ELSE n
Sign(n) == IF n < 0 THEN -1 ELSE IF n > 0 THEN 1 ELSE 0
Max2(a, b) == IF a >= b THEN a ELSE b
Min2(a, b) == IF a <= b THEN a ELSE b
SetMax(S) == CHOOSE m \in S : \A n \in S : n <= m
SetMin(S) == CHOOSE m \in S : \A n \in S : m <= n

\* the concatenation of the sequences of a sequence
Flatten(seqs) ==
    LET joined[k \in 0..Len(seqs)] == IF k = 0 THEN <<>> ELSE joined[k - 1] \o seqs[k]
    IN  joined[Len(seqs)]

\* Vec::remove(j), j counted from 1
RemoveAt(seq, j) == [k \in 1..(Len(seq) - 1) |-> IF k < j THEN seq[k] ELSE seq[k + 1]]

\* Vec::insert(pos, item): item becomes element pos + 1 (pos counted from 0)
InsertAt(seq, pos, item) ==
    [k \in 1..(Len(seq) + 1) |->
        IF k <= pos THEN seq[k] ELSE IF k = pos + 1 THEN item ELSE seq[k - 1]]

\* all sequences over S of length at most n
SeqsUpTo(S, n) == UNION {[1..m -> S] : m \in 0..n}

-----------------------------------------------------------------------------
(* Points, vectors, paths (descartes) *)

VAdd(p, v) == <<p[1] + v[1], p[2] + v[2]>>
VScale(v, k) == <<v[1] * k, v[2] * k>>

\* WithUniqueOrthogonal::orthogonal
Orthogonal(v) == <<v[2], -v[1]>>

\* squared distance of two points; RoughlyComparable on points
DistSq(p, q) == (p[1] - q[1]) * (p[1] - q[1]) + (p[2] - q[2]) * (p[2] - q[2])
PointRoughlyWithin(p, q, tol) == DistSq(p, q) <= tol * tol

\* a straight path from p to q
LinePath(p, q) == [start |-> p, end |-> q]
\* FiniteCurve::length of an axis-parallel line
PathLength(path) ==
    Abs(path.end[1] - path.start[1]) + Abs(path.end[2] - path.start[2])
\* start_direction, end_direction, direction_along: a unit vector
PathDirection(path) ==
    <<Sign(path.end[1] - path.start[1]), Sign(path.end[2] - path.start[2])>>
\* FiniteCurve::along
Along(path, d) == VAdd(path.start, VScale(PathDirection(path), d))
\* FiniteCurve::reverse
Reverse(path) == [start |-> path.end, end |-> path.start]
\* Path::shift_orthogonally: an Option, here always Some (a line never
\* degenerates when shifted)
ShiftOrthogonally(path, offset) ==
    LET v == VScale(Orthogonal(PathDirection(path)), offset)
    IN  << [start |-> VAdd(path.start, v), end |-> VAdd(path.end, v)] >>
\* FiniteCurve::subsection: an Option, None when nothing lies between
Subsection(path, from, to) ==
    IF from < to THEN << LinePath(Along(path, from), Along(path, to)) >> ELSE <<>>
\* Segment::line: an Option, None for coincident points
SegmentLine(p, q) == IF p = q THEN <<>> ELSE << <<p, q>> >>
\* Path::segments of a straight path
PathSegments(path) == << <<path.start, path.end>> >>
\* RoughlyComparable on paths: both ends within the tolerance
PathRoughlyWithin(path_1, path_2, tol) ==
    /\ PointRoughlyWithin(path_1.start, path_2.start, tol)
    /\ PointRoughlyWithin(path_1.end, path_2.end, tol)

-----------------------------------------------------------------------------
(* Shapes: finite sets of rectangles <<x1, y1, x2, y2>>, x1 < x2, y1 < y2 *)

\* the rectangle spanned by a set of points; no rectangle when it has no area
BoundingShape(points) ==
    LET xs == {p[1] : p \in points}
        ys == {p[2] : p \in points}
        r  == <<SetMin(xs), SetMin(ys), SetMax(xs), SetMax(ys)>>
    IN  IF points # {} /\ r[1] < r[3] /\ r[2] < r[4] THEN {r} ELSE {}

RectsOverlap(r, s) == r[1] < s[3] /\ s[1] < r[3] /\ r[2] < s[4] /\ s[2] < r[4]
RectMeet(r, s) == <<Max2(r[1], s[1]), Max2(r[2], s[2]), Min2(r[3], s[3]), Min2(r[4], s[4])>>

\* two shapes share interior region
Overlaps(a, b) == \E r \in a, s \in b : RectsOverlap(r, s)

\* the region two shapes share
CommonRegion(a, b) ==
    {RectMeet(q[1], q[2]) : q \in {q \in a \X b : RectsOverlap(q[1], q[2])}}

\* Shape::contains
Contains(shape, p) ==
    \E r \in shape : r[1] <= p[1] /\ p[1] <= r[3] /\ r[2] <= p[2] /\ p[2] <= r[4]

\* a rectangle is covered by a shape: every elementary cell of the grid of
\* both their coordinates that lies in the rectangle lies in a rectangle of
\* the shape
RectCovered(r, shape) ==
    LET xs == {r[1], r[3]} \cup {s[1] : s \in shape} \cup {s[3] : s \in shape}
        ys == {r[2], r[4]} \cup {s[2] : s \in shape} \cup {s[4] : s \in shape}
        Cells(cs) == {c \in cs \X cs : c[1] < c[2] /\ ~\E m \in cs : c[1] < m /\ m < c[2]}
    IN  \A cx \in Cells(xs), cy \in Cells(ys) :
            (r[1] <= cx[1] /\ cx[2] <= r[3] /\ r[2] <= cy[1] /\ cy[2] <= r[4])
                => \E s \in shape : s[1] <= cx[1] /\ cx[2] <= s[3]
                                    /\ s[2] <= cy[1] /\ cy[2] <= s[4]

\* shape a lies within shape b up to the tolerance
ShapeWithin(a, b, tol) ==
    \A r \in a :
        LET shrunk == <<r[1] + tol, r[2] + tol, r[3] - tol, r[4] - tol>>
        IN  (shrunk[1] < shrunk[3] /\ shrunk[2] < shrunk[4]) => RectCovered(shrunk, b)

\* RoughlyComparable on the outlines of two shapes
OutlineRoughlyWithin(a, b, tol) == ShapeWithin(a, b, tol) /\ ShapeWithin(b, a, tol)

-----------------------------------------------------------------------------
(* clipper::clip *)

\* clipper::clip(mode, a, b): Err on the inputs of clip_failing; otherwise
\* Ok with the common region (Intersection) or the merged region (Union) of
\* two shapes that share interior, and Ok with no shape when they share none
clip(mode, a, b) ==
    IF <<mode, a, b>> \in clip_failing
    THEN [err |-> TRUE, shapes |-> <<>>]
    ELSE IF ~Overlaps(a, b)
    THEN [err |-> FALSE, shapes |-> <<>>]
    ELSE IF mode = "Intersection"
    THEN [err |-> FALSE, shapes |-> << CommonRegion(a, b) >>]
    ELSE [err |-> FALSE, shapes |-> << a \cup b >>]

-----------------------------------------------------------------------------
(* Plans *)

RoadIntent(n_lanes_forward, n_lanes_backward) ==
    [kind |-> "Road", n_lanes_forward |-> n_lanes_forward,
     n_lanes_backward |-> n_lanes_backward]
\* a GestureIntent of another variant
OtherIntent == [kind |-> "Other", n_lanes_forward |-> 0, n_lanes_backward |-> 0]

\* the road gestures plans are built from: two long roads crossing at the
\* origin, a road shorter than END_INTERSECTION_DEPTH, a road with backward
\* lanes only, a road with two forward lanes
GestureCatalog ==
    { [points |-> << <<-5000, 0>>, <<5000, 0>> >>, intent |-> RoadIntent(1, 1)],
      [points |-> << <<0, -5000>>, <<0, 5000>> >>, intent |-> RoadIntent(1, 1)],
      [points |-> << <<0, 0>>, <<1000, 0>> >>, intent |-> RoadIntent(1, 0)],
      [points |-> << <<-5000, -3000>>, <<5000, -3000>> >>, intent |-> RoadIntent(0, 1)],
      [points |-> << <<-5000, 0>>, <<5000, 0>> >>, intent |-> RoadIntent(2, 0)] }

\* gestures that take no part: another intent, fewer than 2 points, points
\* that do not smooth
IgnoredCatalog ==
    { [points |-> << <<-5000, 0>>, <<5000, 0>> >>, intent |-> OtherIntent],
      [points |-> << <<0, 0>> >>, intent |-> RoadIntent(1, 1)],
      [points |-> << <<0, 0>>, <<0, 0>> >>, intent |-> RoadIntent(1, 1)] }

\* a plan: gestures in order, each with its GestureID
PlanOf(gestures) ==
    [k \in 1..Len(gestures) |->
        [id |-> k, points |-> gestures[k].points, intent |-> gestures[k].intent]]

\* the plans: up to MaxGestures different road gestures, in every order
Plans ==
    {PlanOf(gs) : gs \in {seq \in SeqsUpTo(GestureCatalog, MaxGestures) :
                              \A a, b \in 1..Len(seq) : a # b => seq[a] # seq[b]}}

-----------------------------------------------------------------------------
(* Path smoother and pavement outliner *)

\* smooth_path::smooth_path_from: an Option; two distinct control points
\* smooth to the line between them
smooth_path_from(points) ==
    IF Len(points) >= 2 /\ points[1] # points[Len(points)]
    THEN << LinePath(points[1], points[Len(points)]) >>
    ELSE <<>>

\* a closure that smooths the gestures of every intent
SmoothGestureAnyIntent(gesture) ==
    IF Len(gesture.points) >= 2
    THEN [k \in 1..Len(smooth_path_from(gesture.points)) |->
            [gesture_id |-> gesture.id, road_intent |-> gesture.intent,
             path |-> smooth_path_from(gesture.points)[k]]]
    ELSE <<>>

\* the filter_map closure of gesture_intent_smooth_paths, for one gesture
SmoothGesture(gesture) ==
    IF gesture.intent.kind = "Road" /\ Len(gesture.points) >= 2
    THEN [k \in 1..Len(smooth_path_from(gesture.points)) |->
            [gesture_id |-> gesture.id, road_intent |-> gesture.intent,
             path |-> smooth_path_from(gesture.points)[k]]]
    ELSE <<>>

GestureIntentSmoothPaths(p) == Flatten([k \in 1..Len(p) |-> SmoothGesture(p[k])])

\* Option::unwrap_or_else
UnwrapOr(option, default) == IF option = <<>> THEN default ELSE option[1]

\* 0.4 * LANE_DISTANCE
EdgeMargin == (4 * LANE_DISTANCE) \div 10

\* right_path of the outline closure
RightPath(road_intent, path) ==
    IF road_intent.n_lanes_forward = 0
    THEN path
    ELSE Reverse(UnwrapOr(ShiftOrthogonally(path,
                     road_intent.n_lanes_forward * LANE_DISTANCE + EdgeMargin), path))

\* left_path of the outline closure
LeftPath(road_intent, path) ==
    IF road_intent.n_lanes_backward = 0
    THEN path
    ELSE UnwrapOr(ShiftOrthogonally(path,
             -(road_intent.n_lanes_backward * LANE_DISTANCE + EdgeMargin)), path)

\* outline_segments: segments are pairs <<from, to>>
OutlineSegments(road_intent, path) ==
    LET right_path == RightPath(road_intent, path)
        left_path  == LeftPath(road_intent, path)
    IN  PathSegments(left_path)
            \o SegmentLine(left_path.end, right_path.start)
            \o PathSegments(right_path)
            \o SegmentLine(right_path.end, left_path.start)

\* CPath::new accepts segments that follow each other
PathValid(segments) ==
    /\ segments # <<>>
    /\ \A k \in 1..(Len(segments) - 1) : segments[k][2] = segments[k + 1][1]
\* CShape::new accepts a closed outline
OutlineClosed(segments) ==
    PathValid(segments) /\ segments[Len(segments)][2] = segments[1][1]

\* the shape an outline bounds, as the rectangle its corners span
ShapeOfOutline(segments) ==
    BoundingShape({segments[k][1] : k \in 1..Len(segments)}
                  \cup {segments[k][2] : k \in 1..Len(segments)})

-----------------------------------------------------------------------------
(* Intersection builder *)

\* a pairwise pass over the unordered pairs only
PairShapesUnordered(shapes, i_a, i_b) ==
    IF i_a >= i_b
    THEN <<>>
    ELSE clip("Intersection", shapes[i_a + 1], shapes[i_b + 1]).shapes

\* the flat_map closure of the pairwise pass for the pair (i_a, i_b), counted from 0
PairShapes(shapes, i_a, i_b) ==
    IF i_a = i_b
    THEN <<>>
    ELSE clip("Intersection", shapes[i_a + 1], shapes[i_b + 1]).shapes

PairErrs(shapes, i_a, i_b) ==
    i_a # i_b /\ clip("Intersection", shapes[i_a + 1], shapes[i_b + 1]).err

\* the four segments of the end intersection at point
EndCapSegments(road_intent, point, direction) ==
    LET orthogonal     == Orthogonal(direction)
        half_depth     == VScale(direction, END_INTERSECTION_DEPTH \div 2)
        width_backward == VScale(orthogonal,
                              road_intent.n_lanes_backward * LANE_DISTANCE + EdgeMargin)
        width_forward  == VScale(orthogonal,
                              road_intent.n_lanes_forward * LANE_DISTANCE + EdgeMargin)
        Neg(v) == VScale(v, -1)
        c1 == VAdd(VAdd(point, Neg(half_depth)), Neg(width_backward))
        c2 == VAdd(VAdd(point, half_depth), Neg(width_backward))
        c3 == VAdd(VAdd(point, half_depth), width_forward)
        c4 == VAdd(VAdd(point, Neg(half_depth)), width_forward)
    IN  << <<c1, c2>>, <<c2, c3>>, <<c3, c4>>, <<c4, c1>> >>

\* the two end intersections of one gesture: at its start, at its end
EndCaps(entry) ==
    << ShapeOfOutline(EndCapSegments(entry.road_intent, entry.path.start,
                                     PathDirection(entry.path))),
       ShapeOfOutline(EndCapSegments(entry.road_intent, entry.path.end,
                                     PathDirection(entry.path))) >>

\* a cursor that moves on after every outer iteration, merge or not
NextCursorAlwaysAdvances(cursor, advance) == cursor + 1

\* a scan that tries the direct successor of pi only
InnerScanSuccessorOnly(shapes, pi) ==
    {pj \in (pi + 1)..Len(shapes) : pj = pi + 1}

\* the union loop: clip(Union, shapes[pi], shapes[pj]) gave a non-empty Ok
Merges(shapes, pi, pj) ==
    LET results == clip("Union", shapes[pi], shapes[pj])
    IN  ~results.err /\ Len(results.shapes) >= 1

\* a scan that also breaks after an error
InnerScanBreaksOnError(shapes, pi) ==
    {pj \in (pi + 1)..Len(shapes) :
        \A pk \in (pi + 1)..(pj - 1) :
            ~Merges(shapes, pi, pk) /\ ~clip("Union", shapes[pi], shapes[pk]).err}

\* the positions the for loop over j visits for the shape at pi: it breaks
\* after the first merge, and goes on after an empty result or an error
InnerScan(shapes, pi) ==
    {pj \in (pi + 1)..Len(shapes) :
        \A pk \in (pi + 1)..(pj - 1) : ~Merges(shapes, pi, pk)}

\* a merge that replaces the shape at pi and keeps the shape at pj
MergeIntoKeepingBoth(shapes, pi, pj) ==
    [shapes EXCEPT ![pi] = clip("Union", shapes[pi], shapes[pj]).shapes[1]]

\* intersection_shapes[i] = results[0]; intersection_shapes.remove(j)
MergeInto(shapes, pi, pj) ==
    RemoveAt([shapes EXCEPT ![pi] = clip("Union", shapes[pi], shapes[pj]).shapes[1]], pj)

\* if advance { i += 1 }
NextCursor(cursor, advance) == IF advance THEN cursor + 1 ELSE cursor

-----------------------------------------------------------------------------
(* Lane cutter *)

\* GestureSideID::new_forward, new_backward; gesture_idx counts from 0
new_forward(gesture_idx) == gesture_idx + 1
new_backward(gesture_idx) == -(gesture_idx + 1)

\* the lateral offsets of the lanes of one gesture: forward lanes, then backward
LaneOffsets(road_intent) ==
    [lane_i \in 1..road_intent.n_lanes_forward |->
        CENTER_LANE_DISTANCE \div 2 + (lane_i - 1) * LANE_DISTANCE]
    \o [lane_i \in 1..road_intent.n_lanes_backward |->
        -(CENTER_LANE_DISTANCE \div 2 + (lane_i - 1) * LANE_DISTANCE)]

\* the filter_map closure over one offset
RawLane(gesture_i, path, offset) ==
    LET shifted == ShiftOrthogonally(path, offset)
    IN  [k \in 1..Len(shifted) |->
            IF offset < 0
            THEN [gesture_side_id |-> new_backward(gesture_i), path |-> Reverse(shifted[k])]
            ELSE [gesture_side_id |-> new_forward(gesture_i), path |-> shifted[k]]]

\* raw_lane_paths
RawLanePaths(smooth_paths) ==
    Flatten([k \in 1..Len(smooth_paths) |->
        LET offsets == LaneOffsets(smooth_paths[k].road_intent)
        IN  Flatten([o \in 1..Len(offsets) |->
                RawLane(k - 1, smooth_paths[k].path, offsets[o])])])

\* (&raw_lane_path, shape.outline()).intersect(): the distances along the
\* path (along_a) at which it meets the outline of the shape, which are the
\* points of the path's line where the region begins or ends
OutlineHits(path, shape) ==
    LET horizontal == PathDirection(path)[1] # 0
        c      == IF horizontal THEN path.start[2] ELSE path.start[1]
        from   == IF horizontal THEN path.start[1] ELSE path.start[2]
        to     == IF horizontal THEN path.end[1] ELSE path.end[2]
        spans  == {IF horizontal THEN <<r[1], r[3]>> ELSE <<r[2], r[4]>> :
                      r \in {q \in shape : IF horizontal THEN q[2] < c /\ c < q[4]
                                                         ELSE q[1] < c /\ c < q[3]}}
        Before(x) == \E sp \in spans : sp[1] < x /\ x <= sp[2]
        After(x)  == \E sp \in spans : sp[1] <= x /\ x < sp[2]
        ends   == {sp[1] : sp \in spans} \cup {sp[2] : sp \in spans}
    IN  {Abs(x - from) : x \in {e \in ends : /\ Before(e) # After(e)
                                              /\ Min2(from, to) <= e
                                              /\ e <= Max2(from, to)}}

\* IntersectionConnector::new
NewConnector(position, direction) ==
    [position |-> position, direction |-> direction,
     role |-> [straight |-> FALSE, u_turn |-> FALSE,
               inner_turn |-> FALSE, outer_turn |-> FALSE]]

ConnectorAt(path, distance) == NewConnector(Along(path, distance), PathDirection(path))

\* CHashMap::push_at
push_at(map, key, item) ==
    [k \in DOMAIN map \cup {key} |->
        IF k = key
        THEN (IF key \in DOMAIN map THEN Append(map[key], item) ELSE <<item>>)
        ELSE map[k]]

\* which branch of the loop body an intersection takes for a raw lane
HitKind(path, shape) ==
    LET n == Cardinality(OutlineHits(path, shape))
    IN  IF n >= 2 THEN "cut"
        ELSE IF n = 1 /\ Contains(shape, path.start) THEN "exit"
        ELSE IF n = 1 /\ Contains(shape, path.end) THEN "entry"
        ELSE "none"

\* a loop body that files the connector of a single hit under the other map
RegisterConnectorsSingleHitSwapped(intersection, gesture_side_id, path) ==
    LET hits  == OutlineHits(path, intersection.shape)
        kind  == HitKind(path, intersection.shape)
    IN  IF kind = "cut"
        THEN [intersection EXCEPT
                !.incoming = push_at(@, gesture_side_id, ConnectorAt(path, SetMin(hits))),
                !.outgoing = push_at(@, gesture_side_id, ConnectorAt(path, SetMax(hits)))]
        ELSE IF kind = "exit"
        THEN [intersection EXCEPT
                !.incoming = push_at(@, gesture_side_id, ConnectorAt(path, SetMin(hits)))]
        ELSE IF kind = "entry"
        THEN [intersection EXCEPT
                !.outgoing = push_at(@, gesture_side_id, ConnectorAt(path, SetMin(hits)))]
        ELSE intersection

\* the loop body's effect on one intersection prototype
RegisterConnectors(intersection, gesture_side_id, path) ==
    LET hits  == OutlineHits(path, intersection.shape)
        kind  == HitKind(path, intersection.shape)
    IN  IF kind = "cut"
        THEN [intersection EXCEPT
                !.incoming = push_at(@, gesture_side_id, ConnectorAt(path, SetMin(hits))),
                !.outgoing = push_at(@, gesture_side_id, ConnectorAt(path, SetMax(hits)))]
        ELSE IF kind = "exit"
        THEN [intersection EXCEPT
                !.outgoing = push_at(@, gesture_side_id, ConnectorAt(path, SetMin(hits)))]
        ELSE IF kind = "entry"
        THEN [intersection EXCEPT
                !.incoming = push_at(@, gesture_side_id, ConnectorAt(path, SetMin(hits)))]
        ELSE intersection

\* start_trim and end_trim after the loop over the intersections
StartTrim(path, prototypes) ==
    SetMax({0} \cup {SetMin(OutlineHits(path, prototypes[k].shape)) :
                        k \in {n \in 1..Len(prototypes) :
                                  HitKind(path, prototypes[n].shape) = "exit"}})
EndTrim(path, prototypes) ==
    SetMin({PathLength(path)} \cup {SetMin(OutlineHits(path, prototypes[k].shape)) :
                        k \in {n \in 1..Len(prototypes) :
                                  HitKind(path, prototypes[n].shape) = "entry"}})

\* cuts after the loop, in the order of the intersections: (entry, exit)
CutsOf(path, prototypes) ==
    Flatten([k \in 1..Len(prototypes) |->
        IF HitKind(path, prototypes[k].shape) = "cut"
        THEN << <<SetMin(OutlineHits(path, prototypes[k].shape)),
                  SetMax(OutlineHits(path, prototypes[k].shape))>> >>
        ELSE <<>>])

\* cuts.sort_by on the entry distance: a stable sort
RECURSIVE InsertSorted(_, _)
InsertSorted(sorted, cut) ==
    IF sorted = <<>> THEN <<cut>>
    ELSE IF sorted[Len(sorted)][1] <= cut[1] THEN Append(sorted, cut)
    ELSE Append(InsertSorted(SubSeq(sorted, 1, Len(sorted) - 1), cut), sorted[Len(sorted)])
RECURSIVE SortCuts(_)
SortCuts(cuts) ==
    IF cuts = <<>> THEN <<>>
    ELSE InsertSorted(SortCuts(SubSeq(cuts, 1, Len(cuts) - 1)), cuts[Len(cuts)])

\* the sorted cuts between the two sentinels (-1.0, start_trim) and
\* (end_trim, length + 1.0)
CutWindows(path, prototypes) ==
    << <<-100, StartTrim(path, prototypes)>> >>
        \o SortCuts(CutsOf(path, prototypes))
        \o << <<EndTrim(path, prototypes), PathLength(path) + 100>> >>

\* cuts.windows(2).filter_map(subsection): the in-segment pieces of one raw lane
LanePieces(path, prototypes) ==
    LET cuts == CutWindows(path, prototypes)
    IN  Flatten([w \in 1..(Len(cuts) - 1) |-> Subsection(path, cuts[w][2], cuts[w + 1][1])])

-----------------------------------------------------------------------------
(* Transfer lanes, connecting lanes, assembler *)

\* the fragments of one pair (right path of lane X, left path of lane Y):
\* the bands around two parallel lines less than two band widths apart meet
\* at the two ends of the stretch they share; the fragment is kept when both
\* lines run the same way and their midpoints are within the tolerance
TransferFragments(right_path, left_path) ==
    LET horizontal == PathDirection(right_path)[1] # 0
        axis    == IF horizontal THEN 1 ELSE 2
        across  == IF horizontal THEN 2 ELSE 1
        lo      == Max2(Min2(right_path.start[axis], right_path.end[axis]),
                        Min2(left_path.start[axis], left_path.end[axis]))
        hi      == Min2(Max2(right_path.start[axis], right_path.end[axis]),
                        Max2(left_path.start[axis], left_path.end[axis]))
        d1      == Abs(lo - right_path.start[axis])
        d2      == Abs(hi - right_path.start[axis])
        first_along_right  == Min2(d1, d2)
        second_along_right == Max2(d1, d2)
        first_along_left   == Abs((IF d1 <= d2 THEN lo ELSE hi) - left_path.start[axis])
        second_along_left  == Abs((IF d1 <= d2 THEN hi ELSE lo) - left_path.start[axis])
    IN  IF /\ (PathDirection(left_path)[1] # 0) = horizontal
           /\ Abs(right_path.start[across] - left_path.start[across])
                  < 2 * TRANSFER_LANE_DISTANCE_TOLERANCE
           /\ lo < hi
           /\ first_along_left < second_along_left
           /\ PointRoughlyWithin(
                  Along(right_path, (first_along_right + second_along_right) \div 2),
                  Along(left_path, (first_along_left + second_along_left) \div 2),
                  TRANSFER_LANE_DISTANCE_TOLERANCE)
        THEN Subsection(right_path, first_along_right, second_along_right)
        ELSE <<>>

\* transfer_lane_paths: the cartesian product of right paths and left paths
TransferLanePaths(lane_paths) ==
    LET right_lane_paths ==
            Flatten([k \in 1..Len(lane_paths) |->
                        ShiftOrthogonally(lane_paths[k], LANE_DISTANCE \div 2)])
        left_lane_paths  ==
            Flatten([k \in 1..Len(lane_paths) |->
                        ShiftOrthogonally(lane_paths[k], -(LANE_DISTANCE \div 2))])
    IN  Flatten([x \in 1..Len(right_lane_paths) |->
            Flatten([y \in 1..Len(left_lane_paths) |->
                TransferFragments(right_lane_paths[x], left_lane_paths[y])])])

LanePrototype(path, timings) == [variant |-> "Lane", path |-> path, timings |-> timings]
TransferLanePrototype(path) == [variant |-> "TransferLane", path |-> path]
PavedArea(shape) == [variant |-> "PavedArea", shape |-> shape]
IntersectionPrototype(shape) ==
    [variant |-> "Intersection", shape |-> shape, incoming |-> <<>>, outgoing |-> <<>>,
     connecting_lanes |-> <<>>]

\* intersection_connections::create_connecting_lanes: for every pair of an
\* incoming and an outgoing side, a lane from each incoming connector to
\* each outgoing connector at another position
create_connecting_lanes(intersection) ==
    LET LanesOf(from, to) ==
            Flatten([a \in 1..Len(intersection.incoming[from]) |->
                Flatten([b \in 1..Len(intersection.outgoing[to]) |->
                    IF intersection.incoming[from][a].position
                           = intersection.outgoing[to][b].position
                    THEN <<>>
                    ELSE << LanePrototype(
                               LinePath(intersection.incoming[from][a].position,
                                        intersection.outgoing[to][b].position), <<>>) >>])])
        keys == {key \in (DOMAIN intersection.incoming) \X (DOMAIN intersection.outgoing) :
                    LanesOf(key[1], key[2]) # <<>>}
    IN  [intersection EXCEPT
            !.connecting_lanes = [key \in keys |-> LanesOf(key[1], key[2])]]

\* a chain that puts the transfer lanes before the in-segment lanes
AssembledTransferLanesFirst(intersections, lane_paths, transfer_paths, paved_shapes) ==
    intersections
        \o [k \in 1..Len(transfer_paths) |-> TransferLanePrototype(transfer_paths[k])]
        \o [k \in 1..Len(lane_paths) |-> LanePrototype(lane_paths[k], <<>>)]
        \o [k \in 1..Len(paved_shapes) |-> PavedArea(paved_shapes[k])]

\* the chain of the four categories that calculate_prototypes returns
Assembled(intersections, lane_paths, transfer_paths, paved_shapes) ==
    intersections
        \o [k \in 1..Len(lane_paths) |-> LanePrototype(lane_paths[k], <<>>)]
        \o [k \in 1..Len(transfer_paths) |-> TransferLanePrototype(transfer_paths[k])]
        \o [k \in 1..Len(paved_shapes) |-> PavedArea(paved_shapes[k])]

\* RoadPrototype::morphable_from with LanePrototype::, TransferLanePrototype::
\* and IntersectionPrototype::morphable_from
morphable_from(self, other) ==
    IF self.variant = "Lane" /\ other.variant = "Lane"
    THEN /\ PathRoughlyWithin(self.path, other.path, LANE_MORPH_TOLERANCE)
         /\ self.timings = other.timings
    ELSE IF self.variant = "TransferLane" /\ other.variant = "TransferLane"
    THEN PathRoughlyWithin(self.path, other.path, LANE_MORPH_TOLERANCE)
    ELSE IF self.variant = "Intersection" /\ other.variant = "Intersection"
    THEN OutlineRoughlyWithin(self.shape, other.shape, INTERSECTION_MORPH_TOLERANCE)
    ELSE FALSE

-----------------------------------------------------------------------------
(* The state machine: one call of calculate_prototypes, stage by stage *)

NoLines == [intersection |-> 0, union |-> 0]

\* the locals of calculate_prototypes before its first statement
FreshCall ==
    /\ pc = "smooth"
    /\ gesture_intent_smooth_paths = <<>>
    /\ outline_segments = <<>>
    /\ gesture_shapes_for_intersection = <<>>
    /\ pair_cursor = 0
    /\ intersection_shapes = <<>>
    /\ i = 0
    /\ intersection_prototypes = <<>>
    /\ raw_lane_paths = <<>>
    /\ lane_cursor = 0
    /\ intersected_lane_paths = <<>>
    /\ lane_sides = <<>>
    /\ transfer_lane_paths = <<>>
    /\ output = <<>>

\* the pavement shapes of a plan
PavementsOf(p) ==
    LET smooth == GestureIntentSmoothPaths(p)
    IN  [k \in 1..Len(smooth) |->
            ShapeOfOutline(OutlineSegments(smooth[k].road_intent, smooth[k].path))]

\* the inputs of clip(Intersection, ..) that may fail: the ordered pairs of
\* pavements that overlap
IntersectionFaultCandidates(p) ==
    LET paved == PavementsOf(p)
        n     == Len(paved)
    IN  {<<"Intersection", paved[q[1]], paved[q[2]]>> :
            q \in {r \in (1..n) \X (1..n) :
                      r[1] # r[2] /\ Overlaps(paved[r[1]], paved[r[2]])}}

\* the inputs of clip(Union, ..) that may fail, given the failing inputs of
\* clip(Intersection, ..): the first pair of the pool the union loop would merge
UnionFaultCandidates(p, failing) ==
    LET smooth == GestureIntentSmoothPaths(p)
        paved  == PavementsOf(p)
        n      == Len(paved)
        A(k)   == paved[((k - 1) \div n) + 1]
        B(k)   == paved[((k - 1) % n) + 1]
        pool   == Flatten([k \in 1..(n * n) |->
                     IF /\ ((k - 1) \div n) # ((k - 1) % n)
                        /\ Overlaps(A(k), B(k))
                        /\ <<"Intersection", A(k), B(k)>> \notin failing
                     THEN << CommonRegion(A(k), B(k)) >>
                     ELSE <<>>])
                  \o Flatten([k \in 1..n |-> EndCaps(smooth[k])])
        firsts == {a \in 1..Len(pool) : \E b \in (a + 1)..Len(pool) : Overlaps(pool[a], pool[b])}
        first  == SetMin(firsts)
    IN  IF firsts = {}
        THEN {}
        ELSE {<<"Union", pool[first],
                pool[SetMin({b \in (first + 1)..Len(pool) : Overlaps(pool[first], pool[b])})]>>}

\* the sets of failing clipper inputs of a call: at most one of each mode
\* at most one failing input
FailingChoices(candidates) == {{}} \cup {{c} : c \in candidates}

\* the sets of failing clipper inputs of a call: at most one of each mode
FaultChoices(p) ==
    UNION {{failing \cup more : more \in FailingChoices(UnionFaultCandidates(p, failing))} :
              failing \in FailingChoices(IntersectionFaultCandidates(p))}

Init ==
    /\ plan \in Plans
    /\ clip_failing \in FaultChoices(plan)
    /\ log = NoLines
    /\ FreshCall
    /\ call = 1
    /\ first_call = [plan |-> <<>>, output |-> <<>>]
    /\ union_pass = 1
    /\ first_pass = [pool |-> <<>>, shapes |-> <<>>, errors |-> 0]

\* gesture_intent_smooth_paths(plan)
Smooth ==
    /\ pc = "smooth"
    /\ gesture_intent_smooth_paths' = GestureIntentSmoothPaths(plan)
    /\ pc' = "outline"
    /\ UNCHANGED <<plan, clip_failing, log, outline_segments,
                   gesture_shapes_for_intersection, pair_cursor, intersection_shapes, i,
                   intersection_prototypes, raw_lane_paths, lane_cursor,
                   intersected_lane_paths, lane_sides, transfer_lane_paths, output, call,
                   first_call, union_pass, first_pass>>

\* gesture_shapes_for_intersection; the two expect()s panic on an outline
\* that is no closed path
Outline ==
    /\ pc = "outline"
    /\ LET segments == [k \in 1..Len(gesture_intent_smooth_paths) |->
                          OutlineSegments(gesture_intent_smooth_paths[k].road_intent,
                                          gesture_intent_smooth_paths[k].path)]
       IN  IF \A k \in 1..Len(segments) : OutlineClosed(segments[k])
           THEN /\ outline_segments' = segments
                /\ gesture_shapes_for_intersection' =
                       [k \in 1..Len(segments) |-> ShapeOfOutline(segments[k])]
                /\ pc' = "pairwise"
           ELSE /\ pc' = "panicked"
                /\ UNCHANGED <<outline_segments, gesture_shapes_for_intersection>>
    /\ UNCHANGED <<plan, clip_failing, log, gesture_intent_smooth_paths, pair_cursor,
                   intersection_shapes, i, intersection_prototypes, raw_lane_paths,
                   lane_cursor, intersected_lane_paths, lane_sides, transfer_lane_paths,
                   output, call, first_call, union_pass, first_pass>>

\* one element of the cartesian product of the pairwise pass
ClipPair ==
    /\ pc = "pairwise"
    /\ pair_cursor < Len(gesture_shapes_for_intersection) * Len(gesture_shapes_for_intersection)
    /\ LET n   == Len(gesture_shapes_for_intersection)
           i_a == pair_cursor \div n
           i_b == pair_cursor % n
       IN  /\ intersection_shapes' =
                  intersection_shapes \o PairShapes(gesture_shapes_for_intersection, i_a, i_b)
           /\ log' = IF PairErrs(gesture_shapes_for_intersection, i_a, i_b)
                     THEN [log EXCEPT !.intersection = @ + 1]
                     ELSE log
    /\ pair_cursor' = pair_cursor + 1
    /\ UNCHANGED <<plan, clip_failing, pc, gesture_intent_smooth_paths, outline_segments,
                   gesture_shapes_for_intersection, i, intersection_prototypes,
                   raw_lane_paths, lane_cursor, intersected_lane_paths, lane_sides,
                   transfer_lane_paths, output, call, first_call, union_pass, first_pass>>

\* intersection_shapes.extend(..): the end intersections of every gesture
AddEndCaps ==
    /\ pc = "pairwise"
    /\ pair_cursor = Len(gesture_shapes_for_intersection) * Len(gesture_shapes_for_intersection)
    /\ intersection_shapes' =
           intersection_shapes
               \o Flatten([k \in 1..Len(gesture_intent_smooth_paths) |->
                              EndCaps(gesture_intent_smooth_paths[k])])
    /\ i' = 0
    /\ pc' = "union"
    /\ UNCHANGED <<plan, clip_failing, log, gesture_intent_smooth_paths, outline_segments,
                   gesture_shapes_for_intersection, pair_cursor, intersection_prototypes,
                   raw_lane_paths, lane_cursor, intersected_lane_paths, lane_sides,
                   transfer_lane_paths, output, call, first_call, union_pass, first_pass>>

\* one iteration of `while i < intersection_shapes.len()`
UnionIteration ==
    /\ pc = "union"
    /\ i < Len(intersection_shapes)
    /\ LET scanned == InnerScan(intersection_shapes, i + 1)
           targets == {pj \in scanned : Merges(intersection_shapes, i + 1, pj)}
           advance == targets = {}
       IN  /\ intersection_shapes' =
                  IF advance THEN intersection_shapes
                  ELSE MergeInto(intersection_shapes, i + 1, SetMin(targets))
           /\ i' = NextCursor(i, advance)
           /\ log' = [log EXCEPT !.union = @ + Cardinality(
                         {pj \in scanned :
                             clip("Union", intersection_shapes[i + 1],
                                  intersection_shapes[pj]).err})]
    /\ UNCHANGED <<plan, clip_failing, pc, gesture_intent_smooth_paths, outline_segments,
                   gesture_shapes_for_intersection, pair_cursor, intersection_prototypes,
                   raw_lane_paths, lane_cursor, intersected_lane_paths, lane_sides,
                   transfer_lane_paths, output, call, first_call, union_pass, first_pass>>

\* intersection_prototypes and raw_lane_paths
SeedPrototypes ==
    /\ pc = "union"
    /\ i >= Len(intersection_shapes)
    /\ intersection_prototypes' =
           [k \in 1..Len(intersection_shapes) |-> IntersectionPrototype(intersection_shapes[k])]
    /\ raw_lane_paths' = RawLanePaths(gesture_intent_smooth_paths)
    /\ lane_cursor' = 0
    /\ pc' = "cut"
    /\ UNCHANGED <<plan, clip_failing, log, gesture_intent_smooth_paths, outline_segments,
                   gesture_shapes_for_intersection, pair_cursor, intersection_shapes, i,
                   intersected_lane_paths, lane_sides, transfer_lane_paths, output, call,
                   first_call, union_pass, first_pass>>

\* the flat_map closure of the lane cutter, for the next raw lane
CutLane ==
    /\ pc = "cut"
    /\ lane_cursor < Len(raw_lane_paths)
    /\ LET lane   == raw_lane_paths[lane_cursor + 1]
           pieces == LanePieces(lane.path, intersection_prototypes)
       IN  /\ intersection_prototypes' =
                  [k \in 1..Len(intersection_prototypes) |->
                      RegisterConnectors(intersection_prototypes[k],
                                         lane.gesture_side_id, lane.path)]
           /\ intersected_lane_paths' = intersected_lane_paths \o pieces
           /\ lane_sides' = lane_sides \o [k \in 1..Len(pieces) |-> lane.gesture_side_id]
    /\ lane_cursor' = lane_cursor + 1
    /\ UNCHANGED <<plan, clip_failing, log, pc, gesture_intent_smooth_paths,
                   outline_segments, gesture_shapes_for_intersection, pair_cursor,
                   intersection_shapes, i, raw_lane_paths, transfer_lane_paths, output,
                   call, first_call, union_pass, first_pass>>

\* transfer_lane_paths
TransferLanes ==
    /\ pc = "cut"
    /\ lane_cursor = Len(raw_lane_paths)
    /\ transfer_lane_paths' = TransferLanePaths(intersected_lane_paths)
    /\ pc' = "connect"
    /\ UNCHANGED <<plan, clip_failing, log, gesture_intent_smooth_paths, outline_segments,
                   gesture_shapes_for_intersection, pair_cursor, intersection_shapes, i,
                   intersection_prototypes, raw_lane_paths, lane_cursor,
                   intersected_lane_paths, lane_sides, output, call, first_call,
                   union_pass, first_pass>>

\* the loop calling create_connecting_lanes
ConnectLanes ==
    /\ pc = "connect"
    /\ intersection_prototypes' =
           [k \in 1..Len(intersection_prototypes) |->
               create_connecting_lanes(intersection_prototypes[k])]
    /\ pc' = "assemble"
    /\ UNCHANGED <<plan, clip_failing, log, gesture_intent_smooth_paths, outline_segments,
                   gesture_shapes_for_intersection, pair_cursor, intersection_shapes, i,
                   raw_lane_paths, lane_cursor, intersected_lane_paths, lane_sides,
                   transfer_lane_paths, output, call, first_call, union_pass, first_pass>>

\* the final chain, collected and returned
Assemble ==
    /\ pc = "assemble"
    /\ output' = Assembled(intersection_prototypes, intersected_lane_paths,
                           transfer_lane_paths, gesture_shapes_for_intersection)
    /\ pc' = "done"
    /\ UNCHANGED <<plan, clip_failing, log, gesture_intent_smooth_paths, outline_segments,
                   gesture_shapes_for_intersection, pair_cursor, intersection_shapes, i,
                   intersection_prototypes, raw_lane_paths, lane_cursor,
                   intersected_lane_paths, lane_sides, transfer_lane_paths, call,
                   first_call, union_pass, first_pass>>

Compile ==
    \/ Smooth
    \/ Outline
    \/ ClipPair
    \/ AddEndCaps
    \/ UnionIteration
    \/ SeedPrototypes
    \/ CutLane
    \/ TransferLanes
    \/ ConnectLanes
    \/ Assemble

\* the caller compiles a second time: the same plan, or the plan with one
\* more gesture that takes no part, at any position
SecondPlans(p) ==
    {p} \cup {InsertAt(p, pos, [id |-> Len(p) + 1, points |-> g.points, intent |-> g.intent]) :
                 pos \in 0..Len(p), g \in IgnoredCatalog}

Recompile ==
    /\ pc = "done"
    /\ call = 1
    /\ first_call' = [plan |-> plan, output |-> output]
    /\ plan' \in SecondPlans(plan)
    /\ call' = 2
    /\ pc' = "smooth"
    /\ gesture_intent_smooth_paths' = <<>>
    /\ outline_segments' = <<>>
    /\ gesture_shapes_for_intersection' = <<>>
    /\ pair_cursor' = 0
    /\ intersection_shapes' = <<>>
    /\ i' = 0
    /\ intersection_prototypes' = <<>>
    /\ raw_lane_paths' = <<>>
    /\ lane_cursor' = 0
    /\ intersected_lane_paths' = <<>>
    /\ lane_sides' = <<>>
    /\ transfer_lane_paths' = <<>>
    /\ output' = <<>>
    /\ UNCHANGED <<clip_failing, log, union_pass, first_pass>>

\* one call of calculate_prototypes
Next == Compile

Spec == Init /\ [][Next]_vars

\* a call followed by a second call
NextRecompile == Compile \/ Recompile

SpecRecompile == Init /\ [][NextRecompile]_vars

-----------------------------------------------------------------------------
(* The union loop on its own: every pool of interval shapes, in every order *)

IntervalShapes ==
    {{<<a, 0, b, 1>>} : <<a, b>> \in {q \in (0..MaxCoord) \X (0..MaxCoord) : q[1] < q[2]}}

\* the pairs of a pool the loop would merge
PoolFaultCandidates(pool) ==
    {<<"Union", pool[a], pool[b]>> :
        <<a, b>> \in {q \in (1..Len(pool)) \X (1..Len(pool)) :
                         q[1] < q[2] /\ Overlaps(pool[q[1]], pool[q[2]])}}

InitUnion ==
    /\ plan = <<>>
    /\ intersection_shapes \in SeqsUpTo(IntervalShapes, MaxPool)
    /\ clip_failing \in FailingChoices(PoolFaultCandidates(intersection_shapes))
    /\ log = NoLines
    /\ pc = "union"
    /\ gesture_intent_smooth_paths = <<>>
    /\ outline_segments = <<>>
    /\ gesture_shapes_for_intersection = <<>>
    /\ pair_cursor = 0
    /\ i = 0
    /\ intersection_prototypes = <<>>
    /\ raw_lane_paths = <<>>
    /\ lane_cursor = 0
    /\ intersected_lane_paths = <<>>
    /\ lane_sides = <<>>
    /\ transfer_lane_paths = <<>>
    /\ output = <<>>
    /\ call = 1
    /\ first_call = [plan |-> <<>>, output |-> <<>>]
    /\ union_pass = 1
    /\ first_pass = [pool |-> intersection_shapes, shapes |-> <<>>, errors |-> 0]

\* the loop has ended and is run a second time on the list it left
RunUnionAgain ==
    /\ pc = "union"
    /\ i >= Len(intersection_shapes)
    /\ union_pass = 1
    /\ first_pass' = [first_pass EXCEPT !.shapes = intersection_shapes, !.errors = log.union]
    /\ union_pass' = 2
    /\ i' = 0
    /\ UNCHANGED <<plan, clip_failing, log, pc, gesture_intent_smooth_paths,
                   outline_segments, gesture_shapes_for_intersection, pair_cursor,
                   intersection_shapes, intersection_prototypes, raw_lane_paths,
                   lane_cursor, intersected_lane_paths, lane_sides, transfer_lane_paths,
                   output, call, first_call>>

NextUnion == UnionIteration \/ RunUnionAgain

SpecUnion == InitUnion /\ [][NextUnion]_vars

\* the loop runs on: a while loop of a single thread takes its next iteration
SpecUnionFair == SpecUnion /\ WF_vars(NextUnion)

-----------------------------------------------------------------------------
(* Properties *)

\* the loop of the union pass has ended
UnionEnded == pc = "union" /\ i >= Len(intersection_shapes)

\* C1: calling calculate_prototypes twice on the same plan yields two vectors
\* of equal length in which, at every index, the prototype of the second call
\* is morphable_from the prototype of the first call.
C1_Determinism ==
    (pc = "done" /\ call = 2 /\ plan = first_call.plan)
        => /\ Len(output) = Len(first_call.output)
           /\ \A k \in 1..Len(output) : morphable_from(output[k], first_call.output[k])

\* part of a straight lane path, longer than the tolerance 0.05, lies in the
\* interior of a shape
LaneInsideShape(path, shape) ==
    LET horizontal == PathDirection(path)[1] # 0
        c  == IF horizontal THEN path.start[2] ELSE path.start[1]
        lo == IF horizontal THEN Min2(path.start[1], path.end[1])
                            ELSE Min2(path.start[2], path.end[2])
        hi == IF horizontal THEN Max2(path.start[1], path.end[1])
                            ELSE Max2(path.start[2], path.end[2])
    IN  \E r \in shape :
            IF horizontal
            THEN r[2] < c /\ c < r[4] /\ Min2(hi, r[3]) - Max2(lo, r[1]) > LANE_MORPH_TOLERANCE
            ELSE r[1] < c /\ c < r[3] /\ Min2(hi, r[4]) - Max2(lo, r[2]) > LANE_MORPH_TOLERANCE

\* C2: no part of an in-segment lane path lies in the interior of the shape
\* of an intersection prototype of the same call.
C2_LanesOutsideIntersections ==
    \A k \in 1..Len(intersected_lane_paths), m \in 1..Len(intersection_prototypes) :
        ~LaneInsideShape(intersected_lane_paths[k], intersection_prototypes[m].shape)

Turn(o, a, b) ==
    Sign((a[1] - o[1]) * (b[2] - o[2]) - (a[2] - o[2]) * (b[1] - o[1]))
\* point p lies on the segment
OnSegment(p, segment) ==
    /\ Turn(segment[1], segment[2], p) = 0
    /\ Min2(segment[1][1], segment[2][1]) <= p[1] /\ p[1] <= Max2(segment[1][1], segment[2][1])
    /\ Min2(segment[1][2], segment[2][2]) <= p[2] /\ p[2] <= Max2(segment[1][2], segment[2][2])
\* two segments have a point in common
SegmentsMeet(s, t) ==
    \/ /\ Turn(s[1], s[2], t[1]) * Turn(s[1], s[2], t[2]) < 0
       /\ Turn(t[1], t[2], s[1]) * Turn(t[1], t[2], s[2]) < 0
    \/ OnSegment(t[1], s) \/ OnSegment(t[2], s)
    \/ OnSegment(s[1], t) \/ OnSegment(s[2], t)
\* a closed outline is simple: consecutive segments share their joint only,
\* other segments share nothing
OutlineSimple(segments) ==
    LET n == Len(segments)
        Follows(a, b) == b = a + 1 \/ (a = 1 /\ b = n)
    IN  \A a, b \in 1..n :
            a < b =>
                IF n > 2 /\ Follows(a, b)
                THEN LET first  == IF b = a + 1 THEN segments[a] ELSE segments[b]
                         second == IF b = a + 1 THEN segments[b] ELSE segments[a]
                     IN  ~OnSegment(first[1], second) /\ ~OnSegment(second[2], first)
                ELSE ~SegmentsMeet(segments[a], segments[b])

\* C5: every pavement outline is closed and simple, for every pair of lane
\* counts: its two straight closing lines do not cross.
C5_OutlinesSimpleClosed ==
    \A k \in 1..Len(outline_segments) :
        OutlineClosed(outline_segments[k]) /\ OutlineSimple(outline_segments[k])

\* the point lies on the outline of the shape: of the four quadrants around
\* it, the shape covers some and not all
OnOutline(point, shape) ==
    LET Covered(sx, sy) ==
            \E r \in shape :
                /\ IF sx = 1 THEN r[1] <= point[1] /\ point[1] < r[3]
                             ELSE r[1] < point[1] /\ point[1] <= r[3]
                /\ IF sy = 1 THEN r[2] <= point[2] /\ point[2] < r[4]
                             ELSE r[2] < point[2] /\ point[2] <= r[4]
        quadrants == {-1, 1} \X {-1, 1}
    IN  /\ \E q \in quadrants : Covered(q[1], q[2])
        /\ \E q \in quadrants : ~Covered(q[1], q[2])

\* the map holds, under the key, a connector at the point
HasConnector(map, key, point) ==
    key \in DOMAIN map /\ \E n \in 1..Len(map[key]) : map[key][n].position = point

\* C6: for every in-segment lane piece and every intersection, a piece that
\* ends on the intersection's outline has a connector at its end point in
\* incoming under the lane's GestureSideID, and a piece that begins on the
\* outline has a connector at its start point in outgoing under that key.
C6_ConnectorPairing ==
    \A k \in 1..Len(intersected_lane_paths), m \in 1..Len(intersection_prototypes) :
        LET piece        == intersected_lane_paths[k]
            intersection == intersection_prototypes[m]
        IN  /\ OnOutline(piece.end, intersection.shape)
                => HasConnector(intersection.incoming, lane_sides[k], piece.end)
            /\ OnOutline(piece.start, intersection.shape)
                => HasConnector(intersection.outgoing, lane_sides[k], piece.start)

\* a piece begins where a single hit trimmed the lane's start (an intersection
\* the lane only leaves) and ends where a cut by another intersection begins
C6_Witness ==
    /\ pc = "done"
    /\ \E k \in 1..Len(intersected_lane_paths) :
       \E m1, m2 \in 1..Len(intersection_prototypes) :
            /\ m1 # m2
            /\ OnOutline(intersected_lane_paths[k].start, intersection_prototypes[m1].shape)
            /\ lane_sides[k] \notin DOMAIN intersection_prototypes[m1].incoming
            /\ OnOutline(intersected_lane_paths[k].end, intersection_prototypes[m2].shape)
            /\ lane_sides[k] \in DOMAIN intersection_prototypes[m2].outgoing

\* the GestureSideID keys in use: those of the raw lanes and those of the
\* connector maps of the intersections
SideKeysInUse ==
    {raw_lane_paths[k].gesture_side_id : k \in 1..Len(raw_lane_paths)}
    \cup UNION {DOMAIN intersection_prototypes[m].incoming
                    \cup DOMAIN intersection_prototypes[m].outgoing :
                m \in 1..Len(intersection_prototypes)}

\* C7: the output for a plan with one more gesture that is not a Road, has
\* fewer than 2 points or does not smooth, at any position, equals the output
\* for the plan without it, connector keys included; the GestureSideID keys
\* are +(i+1) and -(i+1) for the i-th participating gesture, never 0, and
\* distinct for distinct participating gestures and sides.
C7_IgnoredGesturesChangeNothing ==
    /\ (pc = "done" /\ call = 2 /\ plan # first_call.plan) => output = first_call.output
    /\ \A key \in SideKeysInUse :
            key # 0 /\ Abs(key) \in 1..Len(gesture_intent_smooth_paths)
    /\ \A g, h \in 0..(Len(gesture_intent_smooth_paths) - 1) :
            /\ new_forward(g) # new_backward(h)
            /\ g # h => new_forward(g) # new_forward(h) /\ new_backward(g) # new_backward(h)

\* the second call has compiled a plan with an ignored gesture in front of
\* two road gestures, and connectors are registered under the keys of both
C7_Witness ==
    /\ pc = "done"
    /\ call = 2
    /\ Len(plan) = Len(first_call.plan) + 1
    /\ plan[1] \notin {first_call.plan[k] : k \in 1..Len(first_call.plan)}
    /\ plan[1].id = Len(plan)
    /\ {1, -1, 2, -2} \subseteq SideKeysInUse
    /\ \E m \in 1..Len(intersection_prototypes) :
            {1, 2} \subseteq DOMAIN intersection_prototypes[m].incoming

\* the perpendicular crossing: gesture A (-50,0)->(50,0) and gesture B
\* (0,-50)->(0,50), each a Road with 1 forward and 1 backward lane, and a
\* clipper that returns no error
Crossing ==
    /\ plan = PlanOf(<< [points |-> << <<-5000, 0>>, <<5000, 0>> >>, intent |-> RoadIntent(1, 1)],
                        [points |-> << <<0, -5000>>, <<0, 5000>> >>, intent |-> RoadIntent(1, 1)] >>)
    /\ clip_failing = {}

\* the overlap of the two pavements: the square of the pavement's half width
CrossingCentre ==
    LET half_width == LANE_DISTANCE + EdgeMargin
    IN  {<<-half_width, -half_width, half_width, half_width>>}

\* C8: for the perpendicular crossing, the pairwise pass contributes the
\* central overlap once for (A,B) and once for (B,A), the pool holds these
\* two and the four end caps, 5 intersections remain after the union loop,
\* and each of the 4 raw lanes is cut into exactly 2 pieces, with one incoming
\* and one outgoing connector of its side on the central intersection, where
\* one piece ends and the other begins.
C8_PerpendicularCrossing ==
    Crossing =>
        /\ (pc = "pairwise" /\ pair_cursor = 4)
               => intersection_shapes = <<CrossingCentre, CrossingCentre>>
        /\ pc = "union"
               => /\ Len(intersection_shapes) \in {5, 6}
                  /\ Len(intersection_shapes) = 6
                       => /\ intersection_shapes[1] = CrossingCentre
                          /\ intersection_shapes[2] = CrossingCentre
                  /\ \A a, b \in 3..Len(intersection_shapes) :
                         /\ ~Overlaps(intersection_shapes[a], CrossingCentre)
                         /\ a # b => ~Overlaps(intersection_shapes[a], intersection_shapes[b])
        /\ pc \in {"cut", "connect", "assemble", "done"}
               => /\ Len(intersection_prototypes) = 5
                  /\ intersection_prototypes[1].shape = CrossingCentre
                  /\ Len(raw_lane_paths) = 4
        /\ pc \in {"connect", "assemble", "done"}
               => \A side \in {1, -1, 2, -2} :
                      LET pieces == {k \in 1..Len(lane_sides) : lane_sides[k] = side}
                          centre == intersection_prototypes[1]
                      IN  /\ Cardinality(pieces) = 2
                          /\ side \in DOMAIN centre.incoming
                          /\ side \in DOMAIN centre.outgoing
                          /\ Len(centre.incoming[side]) = 1
                          /\ Len(centre.outgoing[side]) = 1
                          /\ \E k \in pieces :
                                 intersected_lane_paths[k].end = centre.incoming[side][1].position
                          /\ \E k \in pieces :
                                 intersected_lane_paths[k].start = centre.outgoing[side][1].position

\* the call on the perpendicular crossing has returned
C8_Witness ==
    /\ Crossing
    /\ pc = "done"
    /\ Len(intersected_lane_paths) = 8
    /\ Len(output) > 5

\* C9: the union loop terminates for every pool and every behaviour of
\* clip(Union, ..): every iteration of the outer loop either removes exactly
\* one shape with the cursor i unchanged, or advances i by one with the list
\* unchanged; i never passes the length of the list; and each run of the
\* loop reaches its end.
C9_UnionTerminates ==
    /\ [][(pc = "union" /\ pc' = "union" /\ union_pass' = union_pass)
            => \/ /\ Len(intersection_shapes') = Len(intersection_shapes) - 1
                  /\ i' = i
               \/ /\ intersection_shapes' = intersection_shapes
                  /\ i' = i + 1]_vars
    /\ [](pc = "union" => i <= Len(intersection_shapes))
    /\ <>(union_pass = 1 /\ UnionEnded)
    /\ <>(union_pass = 2 /\ UnionEnded)

\* a run has ended after a merge and after a clip(Union, ..) that returned
\* an error, and several shapes are left
C9_Witness ==
    /\ UnionEnded
    /\ union_pass = 1
    /\ log.union > 0
    /\ Len(first_pass.pool) > Len(intersection_shapes)
    /\ Len(intersection_shapes) >= 2

\* the ordered pair of pavement shapes the pairwise pass visits k-th
PairAt(k) ==
    LET n == Len(gesture_shapes_for_intersection)
    IN  [i_a |-> (k - 1) \div n, i_b |-> (k - 1) % n,
         shape_a |-> gesture_shapes_for_intersection[((k - 1) \div n) + 1],
         shape_b |-> gesture_shapes_for_intersection[((k - 1) % n) + 1]]

\* clip(mode, a, b) returns an error
Fails(mode, a, b) == <<mode, a, b>> \in clip_failing

\* the position of the call in the pipeline
StageRank ==
    CASE pc = "smooth"   -> 0
      [] pc = "outline"  -> 1
      [] pc = "pairwise" -> 2
      [] pc = "union"    -> 3
      [] pc = "cut"      -> 4
      [] pc = "connect"  -> 5
      [] pc = "assemble" -> 6
      [] pc = "done"     -> 7

\* C10: clipper errors never abort the call and contribute no shape. While
\* the pairwise pass runs, the pool holds the common region of exactly the
\* visited ordered pairs that overlap and whose clip(Intersection, ..) did
\* not fail, one logged line per failed pair; an iteration of the union loop
\* merges the shape at i with the first later shape whose clip(Union, ..)
\* does not fail and is not empty, whatever errors came before it in the scan,
\* and leaves the list unchanged and advances i when there is none; the call
\* never panics, every step takes it to a later stage or further in the loop
\* of its stage, no loop is stuck, and after logged errors it returns the
\* complete output vector.
C10_ClipperErrorsTolerated ==
    /\ [](pc = "pairwise" =>
            /\ intersection_shapes =
                  Flatten([k \in 1..pair_cursor |->
                      IF /\ PairAt(k).i_a # PairAt(k).i_b
                         /\ Overlaps(PairAt(k).shape_a, PairAt(k).shape_b)
                         /\ ~Fails("Intersection", PairAt(k).shape_a, PairAt(k).shape_b)
                      THEN << CommonRegion(PairAt(k).shape_a, PairAt(k).shape_b) >>
                      ELSE <<>>])
            /\ log.intersection =
                  Cardinality({k \in 1..pair_cursor :
                      /\ PairAt(k).i_a # PairAt(k).i_b
                      /\ Fails("Intersection", PairAt(k).shape_a, PairAt(k).shape_b)}))
    /\ [][(pc = "union" /\ pc' = "union") =>
            LET shapes == intersection_shapes
                good   == {j \in (i + 2)..Len(shapes) :
                              /\ ~Fails("Union", shapes[i + 1], shapes[j])
                              /\ Overlaps(shapes[i + 1], shapes[j])}
            IN  IF good = {}
                THEN intersection_shapes' = shapes /\ i' = i + 1
                ELSE /\ i' = i
                     /\ intersection_shapes' =
                            RemoveAt([shapes EXCEPT
                                         ![i + 1] = shapes[i + 1] \cup shapes[SetMin(good)]],
                                     SetMin(good))]_vars
    /\ [](/\ pc \in {"smooth", "outline", "pairwise", "union", "cut", "connect",
                     "assemble", "done"}
          /\ pc = "pairwise" => pair_cursor <= Len(gesture_shapes_for_intersection)
                                                * Len(gesture_shapes_for_intersection)
          /\ pc = "union" => i <= Len(intersection_shapes)
          /\ pc = "cut" => lane_cursor <= Len(raw_lane_paths))
    /\ [][\/ StageRank' > StageRank
          \/ pc = "pairwise" /\ pc' = pc /\ pair_cursor' = pair_cursor + 1
          \/ pc = "union" /\ pc' = pc
                /\ 2 * Len(intersection_shapes') - i' < 2 * Len(intersection_shapes) - i
          \/ pc = "cut" /\ pc' = pc /\ lane_cursor' = lane_cursor + 1]_vars
    /\ []((pc = "done" /\ log.intersection + log.union > 0) =>
             /\ Len(output) = Len(intersection_prototypes) + Len(intersected_lane_paths)
                                + Len(transfer_lane_paths)
                                + Len(gesture_shapes_for_intersection)
             /\ Len(gesture_shapes_for_intersection) = Len(gesture_intent_smooth_paths)
             /\ Len(gesture_shapes_for_intersection) > 0)

\* the call has returned after an error of clip(Intersection, ..) and an
\* error of clip(Union, ..) that was followed, in the same scan, by a merge
C10_Witness ==
    /\ pc = "done"
    /\ log.intersection > 0
    /\ log.union > 0
    /\ Len(output) > 0
    /\ \E m \in 1..Len(intersection_prototypes) :
           Cardinality(intersection_prototypes[m].shape) >= 2

\* the place of a prototype's category in the returned vector
CategoryRank(prototype) ==
    CASE prototype.variant = "Intersection" -> 1
      [] prototype.variant = "Lane"         -> 2
      [] prototype.variant = "TransferLane" -> 3
      [] prototype.variant = "PavedArea"    -> 4

\* the prototypes of one category, in the order they have in the returned vector
OfCategory(variant) == SelectSeq(output, LAMBDA prototype : prototype.variant = variant)

\* C11: in the returned vector the Intersection prototypes come first, then
\* the in-segment Lane prototypes, each with empty timings, then the
\* TransferLane prototypes, then the PavedArea prototypes; no prototype of a
\* later category precedes one of an earlier category; each category keeps
\* its production order; there is exactly one PavedArea per participating
\* road gesture, in the order of the gestures; an empty plan yields an
\* empty vector.
C11_AssemblerOrder ==
    pc = "done" =>
        /\ \A a, b \in 1..Len(output) :
               a < b => CategoryRank(output[a]) <= CategoryRank(output[b])
        /\ OfCategory("Intersection") = intersection_prototypes
        /\ OfCategory("Lane") =
               [k \in 1..Len(intersected_lane_paths) |->
                   [variant |-> "Lane", path |-> intersected_lane_paths[k], timings |-> <<>>]]
        /\ OfCategory("TransferLane") =
               [k \in 1..Len(transfer_lane_paths) |->
                   [variant |-> "TransferLane", path |-> transfer_lane_paths[k]]]
        /\ Len(OfCategory("PavedArea")) = Len(gesture_intent_smooth_paths)
        /\ \A k \in 1..Len(gesture_intent_smooth_paths) :
               OfCategory("PavedArea")[k].shape =
                   ShapeOfOutline(OutlineSegments(gesture_intent_smooth_paths[k].road_intent,
                                                  gesture_intent_smooth_paths[k].path))
        /\ Len(gesture_intent_smooth_paths) =
               Cardinality({k \in 1..Len(plan) :
                               /\ plan[k].intent.kind = "Road"
                               /\ Len(plan[k].points) >= 2
                               /\ smooth_path_from(plan[k].points) # <<>>})
        /\ plan = <<>> => output = <<>>

\* a call has returned a vector with several prototypes of each of the four
\* categories, for a plan one gesture of which takes no part
C11_Witness ==
    /\ pc = "done"
    /\ Len(plan) > Len(gesture_intent_smooth_paths)
    /\ Len(OfCategory("Intersection")) >= 2
    /\ Len(OfCategory("Lane")) >= 2
    /\ Len(OfCategory("TransferLane")) >= 1
    /\ Len(OfCategory("PavedArea")) >= 2

=============================================================================
